---- MODULE Spec2Model ----
(***************************************************************************)
(* SIMS v6.2 HR evaluation API (netlify/functions/api.js, with server.js   *)
(* as the reference Express variant and schema.sql for the store's         *)
(* constraints).  The store (Supabase), the session token (JWT), the       *)
(* in-flight requests and the wall clock are the state; every await on the *)
(* store is one atomic step of a request, and the synchronous middleware   *)
(* that runs between two awaits is part of the step that precedes it.      *)
(***************************************************************************)
EXTENDS Integers, Sequences, FiniteSets, TLC

(* ------------------------------ bounds -------------------------------- *)
\* hours the clock is followed hour by hour after StartTime
MaxHours == 1
\* weeks the clock is followed week by week after StartTime
MaxWeeks == 3
\* external provisioning changes (role, manager, deletion, warning status)
MaxExt == 1
\* evaluation rows the table may hold before new submissions stop arriving
MaxEvals == 4

(* --------------------------- program constants ------------------------ *)
HoursPerDay == 24
DaysPerWeek == 7
\* jwt.sign(..., { expiresIn: "1h" })
ExpiresIn == 1
\* .limit(3)
Last3Limit == 3
\* Number(e.overall_score) <= 2.5, scores are kept in tenths
LowScore == 25

(* ------------------------------ domains ------------------------------- *)
Roles == {"admin", "hr", "supervisor", "operator", "observer"}
Severities == {"low", "medium", "high", "critical"}
Statuses == {"active", "resolved", "revoked"}
EmpIds == {"e1", "e2", "e3", "e4"}
NoManager == "null"

\* characters of the e-mail strings the login form can send
Lower == [c \in {"a", "b", "c", "d", "z", "A", "B", "C", " "} |->
            CASE c = "A" -> "a" [] c = "B" -> "b" [] c = "C" -> "c" [] OTHER -> c]

VARIABLES
  now,              \* wall clock, hours since 1970-01-01T00:00Z
  envOk,            \* SUPABASE_URL, SUPABASE_SERVICE_ROLE_KEY and JWT_SECRET are set
  employees,        \* table employees: set of rows
  evaluations,      \* table employee_weekly_evaluations: rows in insertion order
  warning_letters,  \* table warning_letters: rows in insertion order
  reqs,             \* the requests in flight, one per connection
  sims_token,       \* the token the frontend keeps in localStorage ({} when none)
  out,              \* the response sent by the last step ({} when it sent none)
  extCount          \* external provisioning changes made so far

vars == <<now, envOk, employees, evaluations, warning_letters, reqs,
          sims_token, out, extCount>>

Conns == {1, 2}

\* the model starts on Sunday 2024-12-29 (day 20086) at 23:00 UTC, one hour before
\* a new week begins
StartTime == 20086 * HoursPerDay + 23

(* ------------------------------ UTILS --------------------------------- *)
\* Date.UTC(d.getUTCFullYear(), d.getUTCMonth(), d.getUTCDate()), in days
UTCDate(d) == d \div HoursPerDay

\* Date.prototype.getUTCDay of a day number: 0..6 (Sun..Sat); day 0 was a Thursday
getUTCDay(date) == (date + 4) % DaysPerWeek

\* Date.prototype.toISOString().slice(0, 10) of a day number: <<YYYY, MM, DD>>
ISODate(date) ==
  LET z == date + 719468
      era == z \div 146097
      doe == z - era * 146097
      yoe == (doe - doe \div 1460 + doe \div 36524 - doe \div 146096) \div 365
      doy == doe - (365 * yoe + yoe \div 4 - yoe \div 100)
      mp == (5 * doy + 2) \div 153
      dd == doy - (153 * mp + 2) \div 5 + 1
      mm == IF mp < 10 THEN mp + 3 ELSE mp - 9
      yy == yoe + era * 400 + (IF mm <= 2 THEN 1 ELSE 0)
  IN <<yy, mm, dd>>

\* mutant: the week is taken to begin on Sunday (diffToMonday = day)
getWeekStartSunday(d) ==
  LET date == UTCDate(d) IN ISODate(date - getUTCDay(date))

getWeekStartDate(d) ==
  LET date == UTCDate(d)
      day == getUTCDay(date)
      diffToMonday == (day + 6) % DaysPerWeek
  IN ISODate(date - diffToMonday)

RECURSIVE TrimStart(_)
TrimStart(s) == IF s # <<>> /\ Head(s) = " " THEN TrimStart(Tail(s)) ELSE s

RECURSIVE TrimEnd(_)
TrimEnd(s) ==
  IF s # <<>> /\ s[Len(s)] = " " THEN TrimEnd(SubSeq(s, 1, Len(s) - 1)) ELSE s

\* String(email || "").trim().toLowerCase()
normalizeEmail(email) ==
  LET t == TrimEnd(TrimStart(email)) IN [i \in 1..Len(t) |-> Lower[t[i]]]

(* ------------------------------ tokens -------------------------------- *)
\* jwt.sign({ id: user.id }, JWT_SECRET, { expiresIn: "1h" })
JwtSign(payload, t) == [payload |-> payload, exp |-> t + ExpiresIn, sig |-> "HS256"]

\* jwt.verify(token, JWT_SECRET): the signature is ours and the token has not expired
JwtVerify(token, t) == token.sig = "HS256" /\ t < token.exp

\* a token that was not signed with JWT_SECRET
ForgedToken == [payload |-> [id |-> "e3"], exp |-> StartTime + 1000, sig |-> "none"]

\* bcrypt.hash / bcrypt.compare
BcryptHash(password) == <<"$2b$", password>>
BcryptCompare(password, hash) == hash = BcryptHash(password)

(* ------------------------------ store --------------------------------- *)
\* .single(): the one row of the result, no row when there are none or several
Single(rows) == IF Cardinality(rows) = 1 THEN rows ELSE {}

\* from("employees").select(...).eq("id", id).single(); ok: the store answered
SelectEmployeeById(id, ok) ==
  IF ok THEN Single({e \in employees : e.id = id}) ELSE {}

\* from("employees").select(...).eq("email", email).single()
SelectEmployeeByEmail(email, ok) ==
  IF ok THEN Single({e \in employees : e.email = email}) ELSE {}

\* mutant: the unique index was never created
NoUniqueIndex(row) == FALSE

\* create unique index uniq_eval_employee_week on (employee_id, week_start)
UniqueViolation(row) ==
  \E i \in 1..Len(evaluations) :
    /\ evaluations[i].employee_id = row.employee_id
    /\ evaluations[i].week_start = row.week_start

RECURSIVE SelectSeq2(_, _)
\* the rows of a table an .eq() filter keeps: positions of table kept by the set keep
SelectSeq2(table, keep) ==
  IF table = <<>> THEN <<>>
  ELSE IF Len(table) \in keep
       THEN Append(SelectSeq2(SubSeq(table, 1, Len(table) - 1), keep), table[Len(table)])
       ELSE SelectSeq2(SubSeq(table, 1, Len(table) - 1), keep)

RECURSIVE OrderDesc(_)
\* .order("created_at", { ascending: false })
OrderDesc(rows) ==
  IF rows = <<>> THEN <<>>
  ELSE LET m == CHOOSE i \in 1..Len(rows) :
                  \A j \in 1..Len(rows) : rows[j].created_at <= rows[i].created_at
       IN <<rows[m]>> \o OrderDesc(SubSeq(rows, 1, m - 1) \o SubSeq(rows, m + 1, Len(rows)))

\* .limit(n)
Limit(rows, n) == SubSeq(rows, 1, IF Len(rows) < n THEN Len(rows) ELSE n)

\* mutant: the query has no .limit(3)
SelectAllOfEmployee(employee_id) ==
  OrderDesc(SelectSeq2(evaluations,
    {i \in 1..Len(evaluations) : evaluations[i].employee_id = employee_id}))

\* select overall_score, created_at where employee_id = ... order by created_at desc limit 3
SelectLast3(employee_id) ==
  LET mine == SelectSeq2(evaluations,
                {i \in 1..Len(evaluations) : evaluations[i].employee_id = employee_id})
  IN Limit(OrderDesc(mine), Last3Limit)

\* last3.filter((e) => Number(e.overall_score) <= 2.5).length
LowCount(last3) == Cardinality({i \in 1..Len(last3) : last3[i].overall_score <= LowScore})

\* const severity = lowCount >= 3 ? "critical" : "high"
SeverityOf(lowCount) == IF lowCount >= 3 THEN "critical" ELSE "high"

\* mutant: the query has no .eq("status", "active")
SelectAllWarnings ==
  [i \in 1..Len(warning_letters) |->
     [employee_id |-> warning_letters[i].employee_id, severity |-> warning_letters[i].severity]]

\* select employee_id, severity from warning_letters where status = 'active'
SelectActiveWarnings ==
  LET act == SelectSeq2(warning_letters,
               {i \in 1..Len(warning_letters) : warning_letters[i].status = "active"})
  IN [i \in 1..Len(act) |-> [employee_id |-> act[i].employee_id, severity |-> act[i].severity]]

(* ----------------------------- requests ------------------------------- *)
NoDate == <<0, 0, 0>>

\* a connection with no request in flight; the fields are those of req, req.user and
\* req.body, and of the handler's locals
Idle == [pc |-> "idle", kind |-> "", user |-> "", role |-> "", manager_id |-> "",
         email |-> <<>>, password |-> "",
         employee_id |-> "", overall_score |-> <<"undefined", 0>>,
         week_start |-> NoDate, severity |-> "", gates |-> <<>>]

\* res.status(status).json({ message, detail }), res.json({ token }), res.json(data);
\* fault tells that the store operation of the step returned an error
Response(status, message, detail, token, data, req, fault) ==
  {[status |-> status, message |-> message, detail |-> detail,
    token |-> token, data |-> data, req |-> req, fault |-> fault]}

Passed(req, gate) == [req EXCEPT !.gates = Append(@, gate)]

\* assertEnv(res): FALSE when a required variable is missing
assertEnv == envOk

\* auth(req, res, next): the response it sends, <<0, "">> when it calls next()
auth(header) ==
  IF ~assertEnv THEN <<500, "Missing env vars">>
  ELSE IF header = {} THEN <<401, "Unauthorized">>
  ELSE IF \A token \in header : JwtVerify(token, now) THEN <<0, "">>
  ELSE <<401, "Invalid token">>

\* mutant: the lookup's outcome is not looked at
HydrateNeverFails(fresh) == FALSE

\* hydrateUser: if (error || !fresh) return 401
HydrateFails(fresh) == fresh = {}

\* a column of the row a .single() lookup returned (undefined when there is none)
Column(row, name) == IF row = {} THEN "undefined" ELSE (CHOOSE e \in row : TRUE)[name]

\* mutant: the role gate lets every role through
requireRoleAny(roles, role) == TRUE

\* requireRole(roles): next() iff roles.includes(req.user.role)
requireRole(roles, role) == role \in roles

EvalRoles == {"supervisor", "hr", "admin"}
RiskRoles == {"hr", "admin"}

\* if (!employee_id || typeof overall_score !== "number") return 400
InvalidPayload(employee_id, overall_score) ==
  employee_id = "" \/ overall_score[1] # "number"

\* mutant: a supervisor may evaluate any employee that exists
assertCanEvaluateAnyTeam(req, emp) ==
  req.role \in {"admin", "hr"} \/ (req.role = "supervisor" /\ emp # {})

\* assertCanEvaluate(req, employeeId), emp being the row its lookup returned
assertCanEvaluate(req, emp) ==
  IF req.role = "admin" \/ req.role = "hr" THEN TRUE
  ELSE IF req.role = "supervisor"
       THEN emp # {} /\ Column(emp, "manager_id") = req.user
       ELSE FALSE

Reply(r, req, status, message, detail, data, fault) ==
  /\ reqs' = [reqs EXCEPT ![r] = Idle]
  /\ out' = Response(status, message, detail, {}, data, req, fault)

Continue(r, req) ==
  /\ reqs' = [reqs EXCEPT ![r] = req]
  /\ out' = {}

(* ------------------------------ LOGIN --------------------------------- *)
\* mutant: an unknown e-mail is told apart from a wrong password
LoginTellsUnknown(email, password, limited, ok) ==
  LET req == [Idle EXCEPT !.kind = "login", !.email = email, !.password = password]
      user == SelectEmployeeByEmail(normalizeEmail(email), ok)
      token == JwtSign([id |-> Column(user, "id")], now)
  IN /\ UNCHANGED <<now, envOk, employees, evaluations, warning_letters, reqs, extCount>>
     /\ IF limited
        THEN /\ out' = Response(429, "Too many requests", "", {}, <<>>, req, FALSE)
             /\ UNCHANGED sims_token
        ELSE IF ~assertEnv
        THEN /\ out' = Response(500, "Missing env vars", "", {}, <<>>, req, FALSE)
             /\ UNCHANGED sims_token
        ELSE IF user = {}
        THEN /\ out' = Response(404, "User not found", "", {}, <<>>, req, ~ok)
             /\ UNCHANGED sims_token
        ELSE IF ~BcryptCompare(password, Column(user, "password_hash"))
        THEN /\ out' = Response(400, "Invalid credentials", "", {}, <<>>, req, FALSE)
             /\ UNCHANGED sims_token
        ELSE /\ out' = Response(200, "", "", {token}, <<>>, req, FALSE)
             /\ sims_token' = {token}

\* app.post("/api/login", loginLimiter, ...); limited: loginLimiter refused the caller,
\* ok: the store answered the lookup.  On 200 the frontend saves the token.
Login(email, password, limited, ok) ==
  LET req == [Idle EXCEPT !.kind = "login", !.email = email, !.password = password]
      user == SelectEmployeeByEmail(normalizeEmail(email), ok)
      token == JwtSign([id |-> Column(user, "id")], now)
  IN /\ UNCHANGED <<now, envOk, employees, evaluations, warning_letters, reqs, extCount>>
     /\ IF limited
        THEN /\ out' = Response(429, "Too many requests", "", {}, <<>>, req, FALSE)
             /\ UNCHANGED sims_token
        ELSE IF ~assertEnv
        THEN /\ out' = Response(500, "Missing env vars", "", {}, <<>>, req, FALSE)
             /\ UNCHANGED sims_token
        ELSE IF user = {}
        THEN /\ out' = Response(400, "Invalid credentials", "", {}, <<>>, req, ~ok)
             /\ UNCHANGED sims_token
        ELSE IF ~BcryptCompare(password, Column(user, "password_hash"))
        THEN /\ out' = Response(400, "Invalid credentials", "", {}, <<>>, req, FALSE)
             /\ UNCHANGED sims_token
        ELSE /\ out' = Response(200, "", "", {token}, <<>>, req, FALSE)
             /\ sims_token' = {token}

(* --------------------- the gates of a protected route ----------------- *)
\* stage 4 and the start of the insert: assertCanEvaluate, then getWeekStartDate
Relationship(r, req, emp, fault) ==
  LET asked == Passed(req, "relationship")
  IN IF ~assertCanEvaluate(req, emp)
     THEN Reply(r, asked, 403, "Forbidden", "", <<>>, fault)
     ELSE Continue(r, [asked EXCEPT !.pc = "insert", !.week_start = getWeekStartDate(now)])

\* mutant: the payload is validated before the role gate runs
HandlerPayloadFirst(r, req) ==
  LET checked == Passed(req, "payload")
      gated == Passed(IF req.kind = "eval" THEN checked ELSE req, "role")
  IN IF req.kind = "eval" /\ InvalidPayload(req.employee_id, req.overall_score)
     THEN Reply(r, checked, 400, "Invalid payload", "", <<>>, FALSE)
     ELSE IF ~requireRole(IF req.kind = "eval" THEN EvalRoles ELSE RiskRoles, req.role)
     THEN Reply(r, gated, 403, "Forbidden", "", <<>>, FALSE)
     ELSE IF req.kind = "risk"
     THEN Continue(r, [gated EXCEPT !.pc = "query"])
     ELSE IF req.role = "supervisor"
     THEN Continue(r, [gated EXCEPT !.pc = "canEval"])
     ELSE Relationship(r, gated, {}, FALSE)

\* requireRole(...) and the synchronous head of the route handler
Handler(r, req) ==
  LET gated == Passed(req, "role")
      checked == Passed(gated, "payload")
  IN IF ~requireRole(IF req.kind = "eval" THEN EvalRoles ELSE RiskRoles, req.role)
     THEN Reply(r, gated, 403, "Forbidden", "", <<>>, FALSE)
     ELSE IF req.kind = "risk"
     THEN Continue(r, [gated EXCEPT !.pc = "query"])
     ELSE IF InvalidPayload(req.employee_id, req.overall_score)
     THEN Reply(r, checked, 400, "Invalid payload", "", <<>>, FALSE)
     ELSE IF req.role = "supervisor"
     THEN Continue(r, [checked EXCEPT !.pc = "canEval"])
     ELSE Relationship(r, checked, {}, FALSE)

\* a request arrives on connection r and runs auth
Request(r, kind, header, employee_id, overall_score) ==
  LET req == Passed([Idle EXCEPT !.kind = kind, !.employee_id = employee_id,
                                 !.overall_score = overall_score], "auth")
      a == auth(header)
  IN /\ reqs[r].pc = "idle"
     /\ kind = "eval" => Len(evaluations) < MaxEvals
     /\ UNCHANGED <<now, envOk, employees, evaluations, warning_letters, sims_token, extCount>>
     /\ IF a[1] = 0
        THEN Continue(r, [req EXCEPT !.pc = "hydrate",
                                     !.user = (CHOOSE t \in header : TRUE).payload.id])
        ELSE Reply(r, req, a[1], a[2], "", <<>>, FALSE)

\* hydrateUser's lookup returns
HydrateUser(r, ok) ==
  LET req == Passed(reqs[r], "hydrate")
      fresh == SelectEmployeeById(req.user, ok)
  IN /\ reqs[r].pc = "hydrate"
     /\ UNCHANGED <<now, envOk, employees, evaluations, warning_letters, sims_token, extCount>>
     /\ IF HydrateFails(fresh)
        THEN Reply(r, req, 401, "Unauthorized", "", <<>>, ~ok)
        ELSE Handler(r, [req EXCEPT !.role = Column(fresh, "role"),
                                    !.manager_id = Column(fresh, "manager_id")])

\* assertCanEvaluate's lookup of the target employee returns
AssertCanEvaluate(r, ok) ==
  /\ reqs[r].pc = "canEval"
  /\ UNCHANGED <<now, envOk, employees, evaluations, warning_letters, sims_token, extCount>>
  /\ Relationship(r, reqs[r], SelectEmployeeById(reqs[r].employee_id, ok), ~ok)

(* ---------------------------- EVALUATIONS ----------------------------- *)
\* from("employee_weekly_evaluations").insert([{ employee_id, week_start, overall_score }])
InsertEvaluation(r, ok) ==
  LET req == reqs[r]
      row == [employee_id |-> req.employee_id, week_start |-> req.week_start,
              overall_score |-> req.overall_score[2],
              created_at |-> Len(evaluations) + 1]
  IN /\ req.pc = "insert"
     /\ UNCHANGED <<now, envOk, employees, warning_letters, sims_token, extCount>>
     /\ IF UniqueViolation(row)
        THEN /\ Reply(r, req, 500, "Insert failed", "duplicate key uniq_eval_employee_week", <<>>, TRUE)
             /\ UNCHANGED evaluations
        ELSE IF ~ok
        THEN /\ Reply(r, req, 500, "Insert failed", "store error", <<>>, TRUE)
             /\ UNCHANGED evaluations
        ELSE /\ evaluations' = Append(evaluations, row)
             /\ Continue(r, [req EXCEPT !.pc = "last3"])

\* the read of the last 3 evaluations returns.  On a store error data is null, and
\* last3.filter throws inside the async handler: the caller gets no answer (unhandled
\* = 0) or the framework's 500 (unhandled = 500), never one this code writes.
ReadLast3(r, ok, unhandled) ==
  LET req == reqs[r]
      last3 == SelectLast3(req.employee_id)
      lowCount == LowCount(last3)
  IN /\ req.pc = "last3"
     /\ UNCHANGED <<now, envOk, employees, evaluations, warning_letters, sims_token, extCount>>
     /\ IF ~ok
        THEN Reply(r, req, unhandled, "TypeError", "", <<>>, TRUE)
        ELSE IF lowCount >= 2
        THEN Continue(r, [req EXCEPT !.pc = "warn", !.severity = SeverityOf(lowCount)])
        ELSE Reply(r, req, 200, "success", "", <<>>, FALSE)

\* from("warning_letters").insert([{ employee_id, severity, status: "active" }]), whose
\* result is not looked at, then res.json({ success: true })
InsertWarning(r, ok) ==
  LET req == reqs[r]
      row == [employee_id |-> req.employee_id, severity |-> req.severity,
              status |-> "active"]
  IN /\ req.pc = "warn"
     /\ UNCHANGED <<now, envOk, employees, evaluations, sims_token, extCount>>
     /\ warning_letters' = IF ok THEN Append(warning_letters, row) ELSE warning_letters
     /\ Reply(r, req, 200, "success", "", <<>>, ~ok)

(* ----------------------------- ANALYTICS ------------------------------ *)
RiskQuery(r, ok) ==
  LET req == reqs[r]
  IN /\ req.pc = "query"
     /\ UNCHANGED <<now, envOk, employees, evaluations, warning_letters, sims_token, extCount>>
     /\ IF ~ok
        THEN Reply(r, req, 500, "Query failed", "store error", <<>>, TRUE)
        ELSE Reply(r, req, 200, "", "", SelectActiveWarnings, FALSE)

(* ------------------- the world around the backend --------------------- *)
\* the wall clock moves on
Tick(dt) ==
  /\ now' = now + dt
  /\ out' = {}
  /\ UNCHANGED <<envOk, employees, evaluations, warning_letters, reqs, sims_token, extCount>>

External ==
  /\ extCount < MaxExt
  /\ extCount' = extCount + 1
  /\ out' = {}
  /\ UNCHANGED <<now, envOk, evaluations, reqs, sims_token>>

\* provisioning changes an employee's role
ExtSetRole(id, role) ==
  /\ External
  /\ \E e \in employees :
       /\ e.id = id /\ e.role # role
       /\ employees' = (employees \ {e}) \cup {[e EXCEPT !.role = role]}
  /\ UNCHANGED warning_letters

\* provisioning changes an employee's manager reference
ExtSetManager(id, manager_id) ==
  /\ External
  /\ \E e \in employees :
       /\ e.id = id /\ e.manager_id # manager_id /\ manager_id # id
       /\ employees' = (employees \ {e}) \cup {[e EXCEPT !.manager_id = manager_id]}
  /\ UNCHANGED warning_letters

\* an employee row is removed
ExtDeleteEmployee(id) ==
  /\ External
  /\ \E e \in employees : e.id = id /\ employees' = employees \ {e}
  /\ UNCHANGED warning_letters

\* a warning letter is resolved or revoked (no endpoint of this backend does it)
ExtSetWarningStatus(i, status) ==
  /\ External
  /\ i \in 1..Len(warning_letters)
  /\ warning_letters[i].status # status
  /\ warning_letters' = [warning_letters EXCEPT ![i].status = status]
  /\ UNCHANGED employees

(* --------------------------- specification ---------------------------- *)
Employee(id, role, manager_id, email, password) ==
  [id |-> id, role |-> role, manager_id |-> manager_id, email |-> email,
   password_hash |-> BcryptHash(password)]

HoursPerWeek == HoursPerDay * DaysPerWeek

\* the evaluation a submission at time t with this score leaves behind
Evaluation(employee_id, t, score, created_at) ==
  [employee_id |-> employee_id, week_start |-> getWeekStartDate(t),
   overall_score |-> score, created_at |-> created_at]

\* e1 supervises e2, e3 is a supervisor without reports, e4 is in HR
InitBase ==
  /\ envOk \in BOOLEAN
  /\ employees = {Employee("e1", "supervisor", NoManager, <<"a">>, "pw1"),
                  Employee("e2", "operator", "e1", <<"b">>, "pw1"),
                  Employee("e3", "supervisor", NoManager, <<"c">>, "pw1"),
                  Employee("e4", "hr", NoManager, <<"d">>, "pw1")}
  /\ reqs = [r \in Conns |-> Idle]
  /\ sims_token = {}
  /\ out = {}
  /\ extCount = 0

\* e2 was given a low score two weeks ago and a good one last week
Init ==
  /\ InitBase
  /\ now = StartTime
  /\ warning_letters = <<>>
  /\ evaluations = <<Evaluation("e2", StartTime - 2 * HoursPerWeek, 25, 1),
                     Evaluation("e2", StartTime - HoursPerWeek, 40, 2)>>

Scores == {<<"number", 25>>, <<"number", 60>>, <<"string", 30>>}
NoBody == <<"undefined", 0>>

TickHour == now < StartTime + MaxHours /\ Tick(1)
TickWeek == now + HoursPerWeek <= StartTime + MaxWeeks * HoursPerWeek /\ Tick(HoursPerWeek)

\* One connection.  The supervisors e1 and e3 log in with the right password and
\* submit evaluations of e2 or ask for the risk list, while provisioning changes e1's
\* role, e2's manager, removes e1, or closes a warning letter.
Next ==
  \/ \E e \in {<<" ", "A">>, <<"c">>} : Login(e, "pw1", FALSE, TRUE)
  \/ \E e \in {"e2", ""}, s \in Scores : Request(1, "eval", sims_token, e, s)
  \/ \E k \in {"eval", "risk"} : Request(1, k, {ForgedToken}, "", NoBody)
  \/ Request(1, "risk", sims_token, "", NoBody)
  \/ \E ok \in BOOLEAN : HydrateUser(1, ok)
  \/ \E ok \in BOOLEAN : AssertCanEvaluate(1, ok)
  \/ \E ok \in BOOLEAN : InsertEvaluation(1, ok)
  \/ \E ok \in BOOLEAN, u \in {0, 500} : ReadLast3(1, ok, u)
  \/ \E ok \in BOOLEAN : InsertWarning(1, ok)
  \/ \E ok \in BOOLEAN : RiskQuery(1, ok)
  \/ TickHour
  \/ \E role \in Roles : ExtSetRole("e1", role)
  \/ \E m \in {"e3", NoManager} : ExtSetManager("e2", m)
  \/ ExtDeleteEmployee("e1")
  \/ \E i \in 1..MaxEvals, s \in Statuses : ExtSetWarningStatus(i, s)

Spec == Init /\ [][Next]_vars

\* The login route alone: any e-mail and password, a limiter that may refuse, a
\* store that may fail, employees that come and go.
NextLogin ==
  \/ \E e \in {<<"a">>, <<" ", "A">>, <<"d">>, <<"z">>, <<>>}, p \in {"pw1", "pw2", ""},
        l \in BOOLEAN, ok \in BOOLEAN : Login(e, p, l, ok)
  \/ TickHour
  \/ \E id \in {"e1", "e4"} : ExtDeleteEmployee(id)
  \/ \E role \in Roles : ExtSetRole("e1", role)

SpecLogin == Init /\ [][NextLogin]_vars

\* no evaluation has been submitted yet
InitEsc == InitBase /\ now = StartTime /\ evaluations = <<>> /\ warning_letters = <<>>

\* Week after week e4 (HR) logs in and submits one evaluation of e2.  An HR
\* caller's relationship gate needs no lookup, so AssertCanEvaluate has no step here.
NextEsc ==
  \/ Login(<<"d">>, "pw1", FALSE, TRUE)
  \/ \E s \in {20, 25, 40} : Request(1, "eval", sims_token, "e2", <<"number", s>>)
  \/ \E ok \in BOOLEAN : HydrateUser(1, ok)
  \/ \E ok \in BOOLEAN : InsertEvaluation(1, ok)
  \/ \E ok \in BOOLEAN, u \in {0, 500} : ReadLast3(1, ok, u)
  \/ \E ok \in BOOLEAN : InsertWarning(1, ok)
  \/ TickWeek

SpecEsc == InitEsc /\ [][NextEsc]_vars

\* Two connections: e4 (HR) submits evaluations of e2 and e3 on both at once,
\* around the hour the week changes.
NextConc ==
  \/ Login(<<"d">>, "pw1", FALSE, TRUE)
  \/ \E r \in Conns, e \in {"e2", "e3"}, s \in {20, 40} :
        Request(r, "eval", sims_token, e, <<"number", s>>)
  \/ \E r \in Conns, ok \in BOOLEAN : HydrateUser(r, ok)
  \/ \E r \in Conns, ok \in BOOLEAN : InsertEvaluation(r, ok)
  \/ \E r \in Conns, ok \in BOOLEAN, u \in {0, 500} : ReadLast3(r, ok, u)
  \/ \E r \in Conns, ok \in BOOLEAN : InsertWarning(r, ok)
  \/ TickHour

SpecConc == Init /\ [][NextConc]_vars

\* the warning letters others may have written before: any two rows the schema allows
WarningRows == [employee_id : {"e2", "e3"}, severity : Severities, status : Statuses]

InitRisk ==
  /\ InitBase
  /\ now = StartTime
  /\ evaluations = <<>>
  /\ warning_letters \in {<<>>} \cup {<<a>> : a \in WarningRows}
                          \cup {<<a, b>> : a \in WarningRows, b \in WarningRows}

\* e4 (HR) or the supervisor e1 asks for the risk list while letters are closed
NextRisk ==
  \/ \E e \in {<<"a">>, <<"d">>} : Login(e, "pw1", FALSE, TRUE)
  \/ Request(1, "risk", sims_token, "", NoBody)
  \/ \E ok \in BOOLEAN : HydrateUser(1, ok)
  \/ \E ok \in BOOLEAN : RiskQuery(1, ok)
  \/ \E i \in 1..MaxEvals, s \in Statuses : ExtSetWarningStatus(i, s)

SpecRisk == InitRisk /\ [][NextRisk]_vars

\* the days the clock may show when the backend starts: from the Sunday before to
\* the Monday after the weeks of Monday 2024-02-26 (with the leap day), Monday
\* 2024-12-23 and Monday 2024-12-30 (with the turn of the year)
StartDays == UNION {(a - 1)..(a + DaysPerWeek) : a \in {19779, 20080, 20087}}

InitWeek ==
  /\ InitBase
  /\ now \in {day * HoursPerDay + h : day \in StartDays, h \in {0, 12, HoursPerDay - 1}}
  /\ evaluations = <<>>
  /\ warning_letters = <<>>

\* e4 (HR) submits an evaluation of e2 at that time; week_start is computed when
\* the gates have passed
NextWeek ==
  \/ Login(<<"d">>, "pw1", FALSE, TRUE)
  \/ \E s \in {20, 40} : Request(1, "eval", sims_token, "e2", <<"number", s>>)
  \/ \E ok \in BOOLEAN : HydrateUser(1, ok)
  \/ \E ok \in BOOLEAN : InsertEvaluation(1, ok)
  \/ \E ok \in BOOLEAN, u \in {0, 500} : ReadLast3(1, ok, u)

SpecWeek == InitWeek /\ [][NextWeek]_vars

(* ------------------------------ claims -------------------------------- *)
GateOrder == <<"auth", "hydrate", "role", "payload", "relationship">>
IsPrefix(s, t) == Len(s) <= Len(t) /\ s = SubSeq(t, 1, Len(s))
LastGate(req) == req.gates[Len(req.gates)]
ValidBody(req) == req.employee_id # "" /\ req.overall_score[1] = "number"
ManagedBy(employee_id, user) ==
  \E e \in employees : e.id = employee_id /\ e.manager_id = user

\* C1: on POST /api/evaluations the gates run in the order authenticate, hydrate,
\* role, payload, relationship; the request ends at the first gate that fails (401
\* from the first two, 403 from the role or relationship gate, 400 from the payload
\* check); a step that answers 401, 403 or 400 changes neither table, and a row is
\* only ever inserted on behalf of a request that has passed all five gates, with a
\* permitted role and a valid payload.
C1_GatesBeforeEffects ==
  [][/\ \A o \in out' : o.req.kind = "eval" =>
          /\ o.req.gates # <<>> /\ IsPrefix(o.req.gates, GateOrder)
          /\ o.status = 401 => LastGate(o.req) \in {"auth", "hydrate"}
          /\ o.status = 403 => LastGate(o.req) \in {"role", "relationship"}
          /\ o.status = 400 => LastGate(o.req) = "payload"
          /\ Len(o.req.gates) >= 4 => o.req.role \in {"supervisor", "hr", "admin"}
          /\ Len(o.req.gates) >= 5 => ValidBody(o.req)
          /\ o.status \in {400, 401, 403} =>
               /\ evaluations' = evaluations
               /\ warning_letters' = warning_letters
               /\ \A r \in Conns : reqs'[r] # reqs[r] =>
                    reqs[r].pc \in {"idle", "hydrate", "canEval"} /\ reqs'[r] = Idle
     /\ \A r \in Conns : reqs'[r].kind = "eval" =>
          /\ IsPrefix(reqs'[r].gates, GateOrder)
          /\ reqs'[r].pc \in {"insert", "last3", "warn"} => reqs'[r].gates = GateOrder
     /\ (Len(evaluations') > Len(evaluations) \/ Len(warning_letters') > Len(warning_letters)) =>
          \E r \in Conns :
            /\ reqs'[r] # reqs[r]
            /\ reqs[r].kind = "eval" /\ reqs[r].gates = GateOrder
            /\ reqs[r].role \in {"supervisor", "hr", "admin"}
            /\ ValidBody(reqs[r])
    ]_vars

\* C1 witness: a submission with an invalid payload was stopped at the payload check
C1_Witness ==
  \E o \in out : o.req.kind = "eval" /\ o.status = 400
                 /\ o.req.gates = <<"auth", "hydrate", "role", "payload">>

C3_RoleGate ==
  /\ \A o \in out : Len(o.req.gates) >= 3 =>
       LET permitted == IF o.req.kind = "eval" THEN {"supervisor", "hr", "admin"}
                                                ELSE {"hr", "admin"}
       IN o.req.role \notin permitted =>
            /\ o.status = 403 /\ o.message = "Forbidden"
            /\ LastGate(o.req) = "role" /\ o.data = <<>>
  /\ \A r \in Conns :
       /\ reqs[r].pc \in {"canEval", "insert", "last3", "warn"} =>
            reqs[r].role \in {"supervisor", "hr", "admin"}
       /\ reqs[r].pc = "query" => reqs[r].role \in {"hr", "admin"}

\* C3 witness: an observer's submission was refused at the role gate
C3_Witness ==
  \E o \in out : o.req.kind = "eval" /\ o.req.role = "observer" /\ o.status = 403

\* C4: the role and manager reference a request carries after hydration are those of
\* the employee row the store holds when hydrateUser runs, and they stay with the
\* request; when the row does not exist or the lookup errors the answer is 401
\* Unauthorized and the request ends there; a token carries the employee id only.
C4_HydratedFromStore ==
  [][/\ \A r \in Conns : (reqs[r].pc = "hydrate" /\ reqs'[r] # reqs[r]) =>
          LET rows == {e \in employees : e.id = reqs[r].user}
              after == IF out' = {} THEN {reqs'[r]} ELSE {o.req : o \in out'}
          IN /\ \A o \in out' : (rows = {} \/ o.fault) =>
                  /\ o.status = 401 /\ o.message = "Unauthorized"
                  /\ o.req.gates = <<"auth", "hydrate">>
             /\ rows = {} => out' # {} /\ reqs'[r] = Idle
             /\ \A a \in after : Len(a.gates) > 2 =>
                  \E e \in rows : a.role = e.role /\ a.manager_id = e.manager_id
     /\ \A r \in Conns : (reqs[r].pc \notin {"idle", "hydrate"} /\ reqs'[r].pc # "idle") =>
          reqs'[r].role = reqs[r].role /\ reqs'[r].manager_id = reqs[r].manager_id
     /\ \A t \in sims_token' : DOMAIN t.payload = {"id"}
    ]_vars

\* C4 witness: the token's employee was removed from the store and the request,
\* whose token is still valid, is answered 401 by hydrateUser
C4_Witness ==
  \E o \in out : /\ o.status = 401 /\ o.req.gates = <<"auth", "hydrate">> /\ ~o.fault
                 /\ \A e \in employees : e.id # o.req.user

\* the body and status of a response, as the caller sees them
Seen(o) == [status |-> o.status, message |-> o.message, detail |-> o.detail,
            token |-> o.token, data |-> o.data]
KnownEmail(email) == \E e \in employees : e.email = normalizeEmail(email)
RightPassword(email, password) ==
  \E e \in employees : e.email = normalizeEmail(email)
                       /\ e.password_hash = BcryptHash(password)

\* C10: a login the limiter let through, with the configuration present, is answered
\* with exactly status 400, message "Invalid credentials" and no token both when the
\* e-mail matches no employee and when it matches one but the password is wrong; a
\* token is only issued for a known e-mail with its right password, and a refused
\* login leaves the client's token as it was.
C10_LoginFailuresAlike ==
  [][\A o \in out' : o.req.kind = "login" =>
       /\ (o.status # 429 /\ envOk /\ ~RightPassword(o.req.email, o.req.password)) =>
            /\ Seen(o) = [status |-> 400, message |-> "Invalid credentials",
                          detail |-> "", token |-> {}, data |-> <<>>]
            /\ sims_token' = sims_token
       /\ o.token # {} => /\ o.status = 200
                          /\ RightPassword(o.req.email, o.req.password)
                          /\ sims_token' = o.token
    ]_vars

\* C10 witness: the last login named an e-mail no employee has and was answered 400
C10_Witness ==
  \E o \in out : /\ o.req.kind = "login" /\ ~KnownEmail(o.req.email)
                 /\ o.status = 400 /\ o.req.email # <<>>

\* C5: no two rows of the evaluations table are for the same employee and week;
\* an insert for an (employee, week) that already has a row, whichever connection
\* made that row and whether or not its request is still running, is answered 500
\* "Insert failed", leaves both tables as they were and ends the request.
C5_OnePerEmployeeWeek ==
  [][/\ \A i, j \in 1..Len(evaluations') :
          (/\ evaluations'[i].employee_id = evaluations'[j].employee_id
           /\ evaluations'[i].week_start = evaluations'[j].week_start) => i = j
     /\ \A r \in Conns :
          (/\ reqs[r].pc = "insert" /\ reqs'[r] # reqs[r]
           /\ \E i \in 1..Len(evaluations) :
                /\ evaluations[i].employee_id = reqs[r].employee_id
                /\ evaluations[i].week_start = reqs[r].week_start) =>
            /\ \A o \in out' : o.status = 500 /\ o.message = "Insert failed"
            /\ out' # {} /\ reqs'[r] = Idle
            /\ evaluations' = evaluations /\ warning_letters' = warning_letters
    ]_vars

\* C5 witness: a submission was refused as a duplicate while the request that
\* inserted the row for the same employee and week is still running
C5_Witness ==
  \E o \in out, r \in Conns :
    /\ o.status = 500 /\ o.message = "Insert failed" /\ o.req.pc = "insert"
    /\ reqs[r].pc \in {"last3", "warn"}
    /\ reqs[r].employee_id = o.req.employee_id
    /\ reqs[r].week_start = o.req.week_start

\* the rows of an employee that fewer than three of the employee's rows are newer than
Recent3(employee_id) ==
  {i \in 1..Len(evaluations) :
     /\ evaluations[i].employee_id = employee_id
     /\ Cardinality({j \in 1..Len(evaluations) :
                       /\ evaluations[j].employee_id = employee_id
                       /\ evaluations[j].created_at > evaluations[i].created_at}) < 3}
Lows(employee_id) ==
  Cardinality({i \in Recent3(employee_id) : evaluations[i].overall_score <= 25})

\* C6: when the read that follows a successful insert is answered, the handler goes
\* on to insert a warning letter of severity critical if all 3 of the employee's 3
\* most recent evaluations score 2.5 or less, of severity high if exactly 2 do, and
\* answers 200 without a letter if 0 or 1 do; the insert it then makes, when the store
\* accepts it, appends exactly one row (employee, that severity, active) whatever
\* letters exist already, and no other step adds a letter.
C6_Escalation ==
  [][/\ \A r \in Conns :
          (reqs[r].pc = "last3" /\ reqs'[r] # reqs[r] /\ \A o \in out' : ~o.fault) =>
            LET n == Lows(reqs[r].employee_id)
            IN /\ warning_letters' = warning_letters
               /\ n = 3 => reqs'[r].pc = "warn" /\ reqs'[r].severity = "critical"
               /\ n = 2 => reqs'[r].pc = "warn" /\ reqs'[r].severity = "high"
               /\ n <= 1 => reqs'[r] = Idle /\ out' # {} /\ \A o \in out' : o.status = 200
     /\ \A r \in Conns :
          (reqs[r].pc = "warn" /\ reqs'[r] # reqs[r]) =>
            /\ out' # {} /\ reqs'[r] = Idle
            /\ \A o \in out' :
                 warning_letters' =
                   IF o.fault THEN warning_letters
                   ELSE Append(warning_letters,
                               [employee_id |-> reqs[r].employee_id,
                                severity |-> reqs[r].severity, status |-> "active"])
     /\ Len(warning_letters') > Len(warning_letters) =>
          \E r \in Conns : reqs[r].pc = "warn" /\ reqs'[r] # reqs[r]
    ]_vars

\* C6 witness: e2 was scored 2.0, 2.0 and 4.0 in three weeks; the second and the third
\* submission each added a letter of severity high, the second while the first was
\* still active
C6_Witness ==
  /\ Len(evaluations) = 3
  /\ \A i \in 1..3 : evaluations[i].employee_id = "e2"
  /\ <<evaluations[1].overall_score, evaluations[2].overall_score,
       evaluations[3].overall_score>> = <<20, 20, 40>>
  /\ warning_letters = <<[employee_id |-> "e2", severity |-> "high", status |-> "active"],
                         [employee_id |-> "e2", severity |-> "high", status |-> "active"]>>
  /\ \E o \in out : o.status = 200 /\ o.req.pc = "warn"

\* the rows of the risk list that carry this employee and severity
Listed(data, e, s) == {i \in 1..Len(data) : data[i].employee_id = e /\ data[i].severity = s}

\* C9: a risk query answered 200 returns one (employee_id, severity) pair for each
\* row of warning_letters whose status is active and nothing else, so no resolved or
\* revoked row contributes to it, and the step changes no table.
C9_RiskListIsActiveRows ==
  [][\A r \in Conns : (reqs[r].pc = "query" /\ reqs'[r] # reqs[r]) =>
       /\ UNCHANGED <<employees, evaluations, warning_letters>>
       /\ \A o \in out' :
            IF o.status = 200
            THEN /\ \A i \in 1..Len(o.data) : DOMAIN o.data[i] = {"employee_id", "severity"}
                 /\ \A e \in EmpIds, s \in Severities :
                      Cardinality(Listed(o.data, e, s)) =
                        Cardinality({i \in 1..Len(warning_letters) :
                                       /\ warning_letters[i].employee_id = e
                                       /\ warning_letters[i].severity = s
                                       /\ warning_letters[i].status = "active"})
                 /\ Len(o.data) = Cardinality({i \in 1..Len(warning_letters) :
                                                 warning_letters[i].status = "active"})
            ELSE o.data = <<>>
    ]_vars

\* C9 witness: the list was returned with one pair while the table also holds a
\* revoked letter
C9_Witness ==
  \E o \in out : /\ o.req.kind = "risk" /\ o.status = 200 /\ Len(o.data) = 1
                 /\ \E i \in 1..Len(warning_letters) : warning_letters[i].status = "revoked"

\* C7: no step whose store operation returned an error answers the caller with
\* the success acknowledgment (status 200); the error is answered as an error.
C7_StoreErrorsSurfaced ==
  \A o \in out : o.fault => o.status # 200

\* C8: every row of the evaluations table has an overall score from 0 to 5
\* (0 to 50 tenths), since a submission with any other score is answered 400
\* and inserts nothing.
C8_ScoreInRange ==
  \A i \in 1..Len(evaluations) :
    evaluations[i].overall_score >= 0 /\ evaluations[i].overall_score <= 50

\* the calendar, counted independently of ISODate
LeapYear(y) == y % 4 = 0 /\ (y % 100 # 0 \/ y % 400 = 0)
LeapsBefore(y) == (y - 1) \div 4 - (y - 1) \div 100 + (y - 1) \div 400
DaysInMonth(y, m) ==
  IF m = 2 THEN (IF LeapYear(y) THEN 29 ELSE 28)
  ELSE IF m \in {4, 6, 9, 11} THEN 30 ELSE 31
RECURSIVE DaysBeforeMonth(_, _)
DaysBeforeMonth(y, m) ==
  IF m = 1 THEN 0 ELSE DaysBeforeMonth(y, m - 1) + DaysInMonth(y, m - 1)
CalendarDate(w) == w[2] \in 1..12 /\ w[3] \in 1..DaysInMonth(w[1], w[2])
\* days from 1970-01-01 to the date <<YYYY, MM, DD>>
DayNumber(w) ==
  365 * (w[1] - 1970) + LeapsBefore(w[1]) - LeapsBefore(1970)
    + DaysBeforeMonth(w[1], w[2]) + w[3] - 1
\* the number of the Monday-to-Sunday week an instant lies in (1970-01-05 was a Monday)
WeekOf(t) == ((t \div 24) + 3) \div 7

\* C11: whenever a request computes week_start at the instant now, the result is a
\* calendar date that is a Monday, not after the UTC date of now and less than 7 days
\* before it; and for every instant t within 8 days of now, getWeekStartDate(t) is
\* that same date exactly when t lies in the same Monday-to-Sunday week as now.
C11_WeekStartIsMonday ==
  [][\A r \in Conns :
       (reqs[r].week_start = NoDate /\ reqs'[r].week_start # NoDate) =>
         LET w == reqs'[r].week_start
             monday == DayNumber(w)
             today == now \div 24
         IN /\ CalendarDate(w)
            /\ (monday + 3) % 7 = 0
            /\ monday <= today /\ today - monday < 7
            /\ \A t \in (now - 8 * 24)..(now + 8 * 24) :
                 (getWeekStartDate(t) = w) <=> (WeekOf(t) = WeekOf(now))
    ]_vars

\* C11 witness: a submission arriving on Sunday 2025-01-05 at 23:00 UTC was given
\* the week start 2024-12-30, in the year before
C11_Witness ==
  /\ now = 20093 * 24 + 23
  /\ reqs[1].pc = "insert" /\ reqs[1].week_start = <<2024, 12, 30>>

\* the row a request inserted: the one for its employee and its week
OwnRow(req) ==
  {i \in 1..Len(evaluations) : /\ evaluations[i].employee_id = req.employee_id
                               /\ evaluations[i].week_start = req.week_start}
\* the low scores among the three newest rows of the employee that are not newer
\* than row i: what a serial execution in insert order reads after inserting row i
SerialLows(i) ==
  LET mine == {j \in 1..Len(evaluations) :
                 /\ evaluations[j].employee_id = evaluations[i].employee_id
                 /\ evaluations[j].created_at <= evaluations[i].created_at}
      window == {j \in mine :
                   Cardinality({k \in mine : evaluations[k].created_at >
                                             evaluations[j].created_at}) < 3}
  IN Cardinality({j \in window : evaluations[j].overall_score <= 25})

\* C12: when a submission's read of the last 3 evaluations is answered, no row of
\* the employee is newer than the row the submission inserted, and the decision
\* taken (a letter of severity critical or high, or none) is the one the three
\* newest rows up to its own row give.
C12_WindowHeadedByOwnRow ==
  [][\A r \in Conns :
       (reqs[r].pc = "last3" /\ reqs'[r] # reqs[r] /\ \A o \in out' : ~o.fault) =>
         \A i \in OwnRow(reqs[r]) :
           /\ \A j \in 1..Len(evaluations) :
                evaluations[j].employee_id = reqs[r].employee_id =>
                  evaluations[j].created_at <= evaluations[i].created_at
           /\ IF SerialLows(i) >= 2
              THEN /\ reqs'[r].pc = "warn"
                   /\ reqs'[r].severity = (IF SerialLows(i) = 3 THEN "critical" ELSE "high")
              ELSE reqs'[r] = Idle /\ \A o \in out' : o.status = 200
    ]_vars

====
